---- MODULE Spec2Model ----
(***************************************************************************)
(* Sidecar process supervisor of src-tauri/src/lib.rs.                     *)
(*                                                                         *)
(* The managed state is one Arc<Mutex<SidecarProcess>>: a slot holding at  *)
(* most one CommandChild.  The handlers (start_sidecar, shutdown_sidecar,  *)
(* the window and run event callbacks calling cleanup_sidecar_process) are *)
(* run by host threads; every access to the slot goes through the mutex,   *)
(* so a handler is modelled as the sequence of its steps between lock      *)
(* acquisitions, blocking calls and OS calls.                              *)
(***************************************************************************)
EXTENDS Naturals, FiniteSets, Sequences, TLC

\* ------------------------------------------------------------- bounds
NumThreads == 2          \* host threads that may run a handler
MaxSpawn == 2            \* worker processes spawned in one run
MaxLines == 3            \* lines the observed worker writes

Threads == 1..NumThreads
Pids == 1..MaxSpawn
MainThread == 1          \* the thread that runs the setup hook

\* ---------------------------------------------------- program constants
None == 0                                  \* Option::None of the slot
ports == {8008, 8009, 8010, 8011, 8012}    \* cleanup_sidecar_ports
ShutdownCommand == "sidecar shutdown\n"
GracePeriodMs == 500
KillSettleMs == 200

\* host triggers bound to cleanup_sidecar_process
StartOps == {"setup", "start_sidecar"}
StopOps == {"cleanup_sidecar_process", "shutdown_sidecar"}

\* values returned to the caller of a handler
OkSpawned == "Ok(Sidecar spawned and monitoring started.)"
OkForced == "Ok(Sidecar forcefully terminated.)"
OkCompleted == "Ok(Sidecar shutdown completed.)"
ErrNoProcess == "Err(No active sidecar process to shutdown.)"
ErrShutdownFailed == "Err(Failed to shutdown sidecar: stdin write failed, kill failed)"
ErrSpawn == "Err(spawn failed)"
OkUnit == "Ok(())"
Unit == "()"
ErrResults == {ErrNoProcess, ErrShutdownFailed, ErrSpawn}

\* outcome lines the handlers print
LogSkip == "Sidecar is already running. Skipping spawn."
LogNoProcessCleanup == "No sidecar process found to cleanup."
LogNoProcessShutdown == "No active sidecar process to shutdown."
LogKilled == "Sidecar process terminated."
LogKillFailed == "Failed to kill sidecar process"

VARIABLES
    process,    \* SidecarProcess.process: None or the pid of the held child
    mutex,      \* holder of the Mutex around the slot, 0 when free
    dropped,    \* the managed SidecarProcess has been dropped
    pc,         \* per thread: position inside the running handler
    op,         \* per thread: the handler it runs
    child,      \* per thread: the CommandChild it owns locally (None if none)
    inv,        \* per thread: what the running invocation has done so far
    status,     \* per pid: "unspawned", "alive", "exited" (by itself), "killed"
    writes,     \* per pid: shutdown commands written to its stdin
    kills,      \* per pid: kill() calls made on its handle by stop handlers
    relays,     \* pids for which an output relay task has been launched
    out,        \* per stream: the lines (bytes) the worker has written
    sent,       \* per stream: how many of them the shell plugin has queued
    rx,         \* the event channel read by the relay task
    emitted,    \* per event name: the payloads the host event sink accepted
    relay,      \* the observed relay task: "none", "running", "ended", "panicked"
    closed      \* the worker's streams: "open", "closed", "terminated"

\* the supervisor's state
cvars == <<process, mutex, dropped, pc, op, child, inv, status, writes, kills, relays>>

\* one worker's output and its relay task
rvars == <<out, sent, rx, emitted, relay, closed>>

vars == <<process, mutex, dropped, pc, op, child, inv, status, writes, kills, relays,
          out, sent, rx, emitted, relay, closed>>

\* cmd: bytes handed to the stdin write; sret: value returned by
\* spawn_and_monitor_sidecar; ret: value returned by the handler; log: outcome line printed; wrote / killres: result of
\* the stdin write and of kill(); slept: milliseconds spent in thread::sleep;
\* sweeps: calls of cleanup_sidecar_ports; scanned: ports they looked at; took: handle taken from the slot;
\* atKill: the worker's status when kill() was called
NoInv == [cmd |-> "", sret |-> "none", ret |-> "none", log |-> "none", wrote |-> "none", slept |-> 0,
          killres |-> "none", sweeps |-> 0, scanned |-> {}, took |-> None,
          atKill |-> "none"]

\* ------------------------------------------------ SidecarProcess methods
new == None

set_process(self, p) == p

\* take_process that copies the handle out and leaves it in the slot
take_process_keep(self) == [self |-> self, ret |-> self]

take_process(self) == [self |-> None, ret |-> self]

\* has_process that never sees the held child
has_process_never(self) == FALSE

has_process(self) == self # None

\* ------------------------------------------------------ OS behaviour
\* CommandChild::kill: a live child is killed; on a child that already exited
\* the call either reports success or fails ("may already be dead").
KillResults(st) == IF st = "alive" THEN {TRUE} ELSE BOOLEAN

AfterKill(st) == IF st = "alive" THEN "killed" ELSE st

Alive == {p \in Pids : status[p] = "alive"}

NextPid == Cardinality({p \in Pids : status[p] # "unspawned"}) + 1

Starting == {t \in Threads : op[t] \in StartOps /\ pc[t] \in {"check", "spawn"}}

SetupDone == ~(op[MainThread] = "setup" /\ pc[MainThread] # "idle")

\* --------------------------------------------------------------- Init
\* run(): setup has stored SidecarProcess::new() in the app state and is about
\* to call spawn_and_monitor_sidecar on the main thread.
Streams == {"Stdout", "Stderr"}

\* lines 153, 161: the event each stream's lines are emitted as
EventName(s) == IF s = "Stdout" THEN "sidecar-stdout" ELSE "sidecar-stderr"

Events == {EventName(s) : s \in Streams}

\* no worker output is observed: the relay variables stay as they are
NoOutput ==
    /\ out = [s \in Streams |-> <<>>]
    /\ sent = [s \in Streams |-> 0]
    /\ rx = <<>>
    /\ emitted = [e \in Events |-> <<>>]
    /\ relay = "none"
    /\ closed = "open"

Init ==
    /\ NoOutput
    /\ process = new
    /\ mutex = 0
    /\ dropped = FALSE
    /\ pc = [t \in Threads |-> IF t = MainThread THEN "check" ELSE "idle"]
    /\ op = [t \in Threads |-> IF t = MainThread THEN "setup" ELSE "none"]
    /\ child = [t \in Threads |-> None]
    /\ inv = [t \in Threads |-> NoInv]
    /\ status = [p \in Pids |-> "unspawned"]
    /\ writes = [p \in Pids |-> 0]
    /\ kills = [p \in Pids |-> 0]
    /\ relays = {}

CanCall(t) == pc[t] = "idle" /\ SetupDone /\ ~dropped

Res(b) == IF b THEN "ok" ELSE "fail"

\* -------------------------------------------- spawn_and_monitor_sidecar
\* start_sidecar command received (the spawn budget covers every start that
\* is past its call and has not spawned yet)
StartCall(t) ==
    /\ CanCall(t)
    /\ NextPid + Cardinality(Starting) <= MaxSpawn
    /\ pc' = [pc EXCEPT ![t] = "check"]
    /\ op' = [op EXCEPT ![t] = "start_sidecar"]
    /\ inv' = [inv EXCEPT ![t] = NoInv]
    /\ UNCHANGED <<process, mutex, dropped, child, status, writes, kills, relays, rvars>>

\* the error of spawn_and_monitor_sidecar discarded by the command as well
StartRetDiscard(t, r) == IF op[t] = "setup" THEN Unit ELSE OkSpawned

\* value of a start handler: the setup hook discards it with .ok()
StartRet(t, r) == IF op[t] = "setup" THEN Unit ELSE r

\* lines 123-130: lock, has_process, unlock
StartCheck(t) ==
    /\ pc[t] = "check"
    /\ mutex = 0
    /\ IF has_process(process)
         THEN /\ pc' = [pc EXCEPT ![t] = "done"]
              /\ inv' = [inv EXCEPT ![t].ret = StartRet(t, OkSpawned),
                                    ![t].sret = OkUnit,
                                    ![t].log = LogSkip]
         ELSE /\ pc' = [pc EXCEPT ![t] = "spawn"]
              /\ inv' = inv
    /\ UNCHANGED <<process, mutex, dropped, op, child, status, writes, kills, relays, rvars>>

\* lines 132-136: sidecar("main") and spawn(), no lock held
StartSpawn(t) ==
    /\ pc[t] = "spawn"
    /\ \/ /\ pc' = [pc EXCEPT ![t] = "done"]
          /\ inv' = [inv EXCEPT ![t].ret = StartRet(t, ErrSpawn),
                                ![t].sret = ErrSpawn]
          /\ UNCHANGED <<child, status>>
       \/ /\ NextPid \in Pids
          /\ status' = [status EXCEPT ![NextPid] = "alive"]
          /\ child' = [child EXCEPT ![t] = NextPid]
          /\ pc' = [pc EXCEPT ![t] = "set"]
          /\ inv' = inv
    /\ UNCHANGED <<process, mutex, dropped, op, writes, kills, relays, rvars>>

\* lines 138-169: lock, set_process (the previous Option value is dropped,
\* which sends no signal), unlock, launch the relay task, Ok(())
StartSet(t) ==
    /\ pc[t] = "set"
    /\ mutex = 0
    /\ process' = set_process(process, child[t])
    /\ child' = [child EXCEPT ![t] = None]
    /\ relays' = relays \cup {child[t]}
    /\ pc' = [pc EXCEPT ![t] = "done"]
    /\ inv' = [inv EXCEPT ![t].ret = StartRet(t, OkSpawned), ![t].sret = OkUnit]
    /\ UNCHANGED <<mutex, dropped, op, status, writes, kills, rvars>>

\* the guard given up as soon as the handle has been taken
GuardReleasedAfterTake(t) == 0

\* lines 41-71, 178-215: the MutexGuard lives to the end of the block that
\* took the handle, so the taking thread still owns the mutex after the take
GuardAfterTake(t) == t

\* ---------------------------------------------- cleanup_sidecar_process
CleanupCall(t) ==
    /\ CanCall(t)
    /\ op' = [op EXCEPT ![t] = "cleanup_sidecar_process"]
    /\ pc' = [pc EXCEPT ![t] = "c_lock"]
    /\ inv' = [inv EXCEPT ![t] = NoInv]
    /\ UNCHANGED <<process, mutex, dropped, child, status, writes, kills, relays, rvars>>

\* lines 244-251, 276-283: the four host triggers bound to it
CloseRequested(t) == CleanupCall(t)

Destroyed(t) == CleanupCall(t)

ExitRequested(t) == CleanupCall(t)

Exit(t) == CleanupCall(t)

\* an early return when the slot is empty
CleanupNoProcessReturns == "done"

\* lines 64-77: with nothing to clean up the function goes on to the sweep
CleanupNoProcessNext == "c_sweep"

\* lines 42-43, 64-66: lock and take_process; with an empty slot the guard is
\* released at once
CleanupLock(t) ==
    /\ pc[t] = "c_lock"
    /\ mutex = 0
    /\ LET tk == take_process(process) IN
         /\ process' = tk.self
         /\ IF tk.ret # None
              THEN /\ mutex' = GuardAfterTake(t)
                   /\ child' = [child EXCEPT ![t] = tk.ret]
                   /\ pc' = [pc EXCEPT ![t] = "c_write"]
                   /\ inv' = [inv EXCEPT ![t].took = tk.ret]
              ELSE /\ mutex' = 0
                   /\ child' = child
                   /\ pc' = [pc EXCEPT ![t] = CleanupNoProcessNext]
                   /\ inv' = [inv EXCEPT ![t].log = LogNoProcessCleanup]
    /\ UNCHANGED <<dropped, op, status, writes, kills, relays, rvars>>

\* the kill issued right after the write, whatever it returned
CleanupAfterWriteNeverWaits(ok) == "c_kill"

\* the grace period entered whatever the write returned
CleanupAfterWriteAlwaysWaits(ok) == "c_sleep"

\* lines 47-53: where cleanup_sidecar_process goes after the write
CleanupAfterWrite(ok) == IF ok THEN "c_sleep" ELSE "c_kill"

\* lines 45-50: process.write("sidecar shutdown\n")
CleanupWrite(t) ==
    /\ pc[t] = "c_write"
    /\ \E ok \in BOOLEAN :
         /\ writes' = [writes EXCEPT ![child[t]] = @ + (IF ok THEN 1 ELSE 0)]
         /\ pc' = [pc EXCEPT ![t] = CleanupAfterWrite(ok)]
         /\ inv' = [inv EXCEPT ![t].wrote = Res(ok), ![t].cmd = ShutdownCommand]
    /\ UNCHANGED <<process, mutex, dropped, op, child, status, kills, relays, rvars>>

\* line 52: the grace period
CleanupSleep(t) ==
    /\ pc[t] = "c_sleep"
    /\ pc' = [pc EXCEPT ![t] = "c_kill"]
    /\ inv' = [inv EXCEPT ![t].slept = @ + GracePeriodMs]
    /\ UNCHANGED <<process, mutex, dropped, op, child, status, writes, kills, relays, rvars>>

\* lines 56-67: kill, settle sleep on success, drop the handle, unlock
CleanupKill(t) ==
    /\ pc[t] = "c_kill"
    /\ \E ok \in KillResults(status[child[t]]) :
         /\ inv' = [inv EXCEPT ![t].killres = Res(ok),
                               ![t].atKill = status[child[t]],
                               ![t].log = IF ok THEN LogKilled ELSE LogKillFailed,
                               ![t].slept = @ + (IF ok THEN KillSettleMs ELSE 0)]
    /\ status' = [status EXCEPT ![child[t]] = AfterKill(@)]
    /\ kills' = [kills EXCEPT ![child[t]] = @ + 1]
    /\ child' = [child EXCEPT ![t] = None]
    /\ mutex' = 0
    /\ pc' = [pc EXCEPT ![t] = "c_sweep"]
    /\ UNCHANGED <<process, dropped, op, writes, relays, rvars>>

\* lines 81-105: kill -9 every pid that lsof reports on one of the ports;
\* found is what the lsof lookups report: any live workers may listen there
cleanup_sidecar_ports(found) ==
    [p \in Pids |-> IF p \in found THEN AfterKill(status[p]) ELSE status[p]]

\* an empty slot reported to the caller as an error
CleanupResultErrOnEmpty(took) == IF took = None THEN ErrNoProcess ELSE Unit

\* line 39: cleanup_sidecar_process returns nothing, whatever it found
CleanupResult(took) == Unit

\* lines 76-78
CleanupSweep(t) ==
    /\ pc[t] = "c_sweep"
    /\ \E found \in SUBSET Alive : status' = cleanup_sidecar_ports(found)
    /\ pc' = [pc EXCEPT ![t] = "done"]
    /\ inv' = [inv EXCEPT ![t].sweeps = @ + 1, ![t].scanned = ports,
                          ![t].ret = CleanupResult(inv[t].took)]
    /\ UNCHANGED <<process, mutex, dropped, op, child, writes, kills, relays, rvars>>

\* ------------------------------------------------------ shutdown_sidecar
ShutdownCall(t) ==
    /\ CanCall(t)
    /\ pc' = [pc EXCEPT ![t] = "s_lock"]
    /\ op' = [op EXCEPT ![t] = "shutdown_sidecar"]
    /\ inv' = [inv EXCEPT ![t] = NoInv]
    /\ UNCHANGED <<process, mutex, dropped, child, status, writes, kills, relays, rvars>>

\* an empty slot reported as a completed shutdown
ShutdownNoProcessOk == OkCompleted

\* lines 211-214: result of shutdown_sidecar on an empty slot
ShutdownNoProcess == ErrNoProcess

\* lines 178-182, 211-214
ShutdownLock(t) ==
    /\ pc[t] = "s_lock"
    /\ mutex = 0
    /\ LET tk == take_process(process) IN
         /\ process' = tk.self
         /\ IF tk.ret # None
              THEN /\ mutex' = GuardAfterTake(t)
                   /\ child' = [child EXCEPT ![t] = tk.ret]
                   /\ pc' = [pc EXCEPT ![t] = "s_write"]
                   /\ inv' = [inv EXCEPT ![t].took = tk.ret]
              ELSE /\ mutex' = 0
                   /\ child' = child
                   /\ pc' = [pc EXCEPT ![t] = "done"]
                   /\ inv' = [inv EXCEPT ![t].log = LogNoProcessShutdown,
                                         ![t].ret = ShutdownNoProcess]
    /\ UNCHANGED <<dropped, op, status, writes, kills, relays, rvars>>

\* the write error returned at once, the taken handle dropped unkilled
ShutdownAfterWriteGivesUp(ok) == IF ok THEN "s_sleep" ELSE "done"

\* the kill issued right after a successful write
ShutdownAfterWriteNoWait(ok) == IF ok THEN "s_kill" ELSE "s_killw"

\* lines 186-201: where shutdown_sidecar goes after the write
ShutdownAfterWrite(ok) == IF ok THEN "s_sleep" ELSE "s_killw"

\* line 186
ShutdownWrite(t) ==
    /\ pc[t] = "s_write"
    /\ \E ok \in BOOLEAN :
         /\ writes' = [writes EXCEPT ![child[t]] = @ + (IF ok THEN 1 ELSE 0)]
         /\ pc' = [pc EXCEPT ![t] = ShutdownAfterWrite(ok)]
         /\ inv' = [inv EXCEPT ![t].wrote = Res(ok), ![t].cmd = ShutdownCommand]
    /\ UNCHANGED <<process, mutex, dropped, op, child, status, kills, relays, rvars>>

\* the result of the kill ignored after a failed write
ShutdownWriteFailedRetSwallow(killOk) == OkForced

\* lines 189-198: result of shutdown_sidecar after a failed write
ShutdownWriteFailedRet(killOk) == IF killOk THEN OkForced ELSE ErrShutdownFailed

\* a failed kill after the grace period reported as an error
ShutdownCompletedRetByKill(killOk) == IF killOk THEN OkCompleted ELSE ErrShutdownFailed

\* lines 204-210: result of shutdown_sidecar after the grace period
ShutdownCompletedRet(killOk) == OkCompleted

\* lines 189-198: kill right after a failed write, return
ShutdownKillAfterWriteFailure(t) ==
    /\ pc[t] = "s_killw"
    /\ \E ok \in KillResults(status[child[t]]) :
         /\ inv' = [inv EXCEPT ![t].killres = Res(ok),
                               ![t].atKill = status[child[t]],
                               ![t].log = IF ok THEN LogKilled ELSE LogKillFailed,
                               ![t].ret = ShutdownWriteFailedRet(ok)]
    /\ status' = [status EXCEPT ![child[t]] = AfterKill(@)]
    /\ kills' = [kills EXCEPT ![child[t]] = @ + 1]
    /\ child' = [child EXCEPT ![t] = None]
    /\ mutex' = 0
    /\ pc' = [pc EXCEPT ![t] = "done"]
    /\ UNCHANGED <<process, dropped, op, writes, relays, rvars>>

\* line 204: the grace period
ShutdownSleep(t) ==
    /\ pc[t] = "s_sleep"
    /\ pc' = [pc EXCEPT ![t] = "s_kill"]
    /\ inv' = [inv EXCEPT ![t].slept = @ + GracePeriodMs]
    /\ UNCHANGED <<process, mutex, dropped, op, child, status, writes, kills, relays, rvars>>

\* lines 205-210: kill, Ok("Sidecar shutdown completed.")
ShutdownKill(t) ==
    /\ pc[t] = "s_kill"
    /\ \E ok \in KillResults(status[child[t]]) :
         /\ inv' = [inv EXCEPT ![t].killres = Res(ok),
                               ![t].atKill = status[child[t]],
                               ![t].log = IF ok THEN LogKilled ELSE LogKillFailed,
                               ![t].ret = ShutdownCompletedRet(ok)]
    /\ status' = [status EXCEPT ![child[t]] = AfterKill(@)]
    /\ kills' = [kills EXCEPT ![child[t]] = @ + 1]
    /\ child' = [child EXCEPT ![t] = None]
    /\ mutex' = 0
    /\ pc' = [pc EXCEPT ![t] = "done"]
    /\ UNCHANGED <<process, dropped, op, writes, relays, rvars>>

\* the write and kill counts of a worker belong to the record of the
\* invocation that took it and end with it; the handle itself was consumed
\* by kill(), so no later call can reach that worker
Forget(count, p) == IF p = None THEN count ELSE [count EXCEPT ![p] = 0]

\* ------------------------------------------------------------ the rest
\* the handler has returned and its result has been handed to the caller
Return(t) ==
    /\ pc[t] = "done"
    /\ pc' = [pc EXCEPT ![t] = "idle"]
    /\ op' = [op EXCEPT ![t] = "none"]
    /\ inv' = [inv EXCEPT ![t] = NoInv]
    /\ writes' = Forget(writes, inv[t].took)
    /\ kills' = Forget(kills, inv[t].took)
    /\ UNCHANGED <<process, mutex, dropped, child, status, relays, rvars>>

\* the worker process ends by itself (crash, or its answer to the shutdown
\* command)
WorkerExit(p) ==
    /\ status[p] = "alive"
    /\ status' = [status EXCEPT ![p] = "exited"]
    /\ UNCHANGED <<process, mutex, dropped, pc, op, child, inv, writes, kills, relays, rvars>>

\* lines 29-36: Drop for SidecarProcess, when the host tears the state down
DropSidecarProcess ==
    /\ ~dropped
    /\ SetupDone
    /\ \A t \in Threads : pc[t] = "idle"
    /\ LET tk == take_process(process) IN
         /\ process' = tk.self
         /\ status' = IF tk.ret # None
                        THEN [status EXCEPT ![tk.ret] = AfterKill(@)]
                        ELSE status
    /\ dropped' = TRUE
    /\ UNCHANGED <<mutex, pc, op, child, inv, writes, kills, relays, rvars>>

Next ==
    \/ \E t \in Threads : StartCall(t)
    \/ \E t \in Threads : StartCheck(t)
    \/ \E t \in Threads : StartSpawn(t)
    \/ \E t \in Threads : StartSet(t)
    \/ \E t \in Threads : CloseRequested(t)
    \/ \E t \in Threads : Destroyed(t)
    \/ \E t \in Threads : ExitRequested(t)
    \/ \E t \in Threads : Exit(t)
    \/ \E t \in Threads : CleanupLock(t)
    \/ \E t \in Threads : CleanupWrite(t)
    \/ \E t \in Threads : CleanupSleep(t)
    \/ \E t \in Threads : CleanupKill(t)
    \/ \E t \in Threads : CleanupSweep(t)
    \/ \E t \in Threads : ShutdownCall(t)
    \/ \E t \in Threads : ShutdownLock(t)
    \/ \E t \in Threads : ShutdownWrite(t)
    \/ \E t \in Threads : ShutdownKillAfterWriteFailure(t)
    \/ \E t \in Threads : ShutdownSleep(t)
    \/ \E t \in Threads : ShutdownKill(t)
    \/ \E t \in Threads : Return(t)
    \/ \E p \in Pids : WorkerExit(p)
    \/ DropSidecarProcess

Spec == Init /\ [][Next]_vars

TypeOK ==
    /\ process \in Pids \cup {None}
    /\ mutex \in Threads \cup {0}
    /\ dropped \in BOOLEAN
    /\ child \in [Threads -> Pids \cup {None}]
    /\ status \in [Pids -> {"unspawned", "alive", "exited", "killed"}]
    /\ relays \subseteq Pids

\* a handler step of thread t: everything but the arrival of a new call
Step(t) ==
    \/ StartCheck(t) \/ StartSpawn(t) \/ StartSet(t)
    \/ CleanupLock(t) \/ CleanupWrite(t) \/ CleanupSleep(t) \/ CleanupKill(t)
    \/ CleanupSweep(t)
    \/ ShutdownLock(t) \/ ShutdownWrite(t) \/ ShutdownKillAfterWriteFailure(t)
    \/ ShutdownSleep(t) \/ ShutdownKill(t)
    \/ Return(t)

\* a handler that has been called keeps running; calls, worker exits and the
\* teardown of the state are up to the environment
FairSpec == Spec /\ \A t \in Threads : WF_vars(Step(t))

\* ------------------------------------------------------ the output relay
\* lines the observed worker may write: plain ASCII, and one holding a byte
\* that is not valid UTF-8
Lines == {<<111, 107>>, <<255, 33>>}

ReplacementChar == 65533

\* lines 149, 157: String::from_utf8_lossy, on bytes that are ASCII or invalid
from_utf8_lossy(bytes) ==
    [i \in 1..Len(bytes) |-> IF bytes[i] < 128 THEN bytes[i] ELSE ReplacementChar]

\* setup has spawned worker 1, stored it and launched its relay task (lines
\* 136-169), and has returned
RelayInit ==
    /\ process = 1
    /\ mutex = 0
    /\ dropped = FALSE
    /\ pc = [t \in Threads |-> "idle"]
    /\ op = [t \in Threads |-> "none"]
    /\ child = [t \in Threads |-> None]
    /\ inv = [t \in Threads |-> NoInv]
    /\ status = [p \in Pids |-> IF p = 1 THEN "alive" ELSE "unspawned"]
    /\ writes = [p \in Pids |-> 0]
    /\ kills = [p \in Pids |-> 0]
    /\ relays = {1}
    /\ out = [s \in Streams |-> <<>>]
    /\ sent = [s \in Streams |-> 0]
    /\ rx = <<>>
    /\ emitted = [e \in Events |-> <<>>]
    /\ relay = "running"
    /\ closed = "open"

\* the worker writes a line to stdout or stderr
WorkerWrite(s, l) ==
    /\ closed = "open"
    /\ Len(out["Stdout"]) + Len(out["Stderr"]) < MaxLines
    /\ out' = [out EXCEPT ![s] = Append(@, l)]
    /\ UNCHANGED <<cvars, sent, rx, emitted, relay, closed>>

\* line 136: the reader of one stream queues its next line on the channel
\* returned by spawn(), as CommandEvent::Stdout or CommandEvent::Stderr
PluginSend(s) ==
    /\ sent[s] < Len(out[s])
    /\ rx' = Append(rx, [kind |-> s, data |-> out[s][sent[s] + 1]])
    /\ sent' = [sent EXCEPT ![s] = @ + 1]
    /\ UNCHANGED <<cvars, out, emitted, relay, closed>>

\* the worker ends and its streams close
StreamsClose ==
    /\ closed = "open"
    /\ closed' = "closed"
    /\ status' = [status EXCEPT ![1] = "exited"]
    /\ UNCHANGED <<process, mutex, dropped, pc, op, child, inv, writes, kills, relays,
                   out, sent, rx, emitted, relay>>

\* line 136: the channel also carries CommandEvent::Terminated
PluginTerminated ==
    /\ closed = "closed"
    /\ closed' = "terminated"
    /\ rx' = Append(rx, [kind |-> "Terminated", data |-> <<>>])
    /\ UNCHANGED <<cvars, out, sent, emitted, relay>>

\* lines 146-165: one turn of the loop: Stdout and Stderr events are decoded
\* and emitted, and a failed emit panics the task through expect(); any
\* other event is ignored
RelayRecv ==
    /\ relay = "running"
    /\ rx # <<>>
    /\ rx' = Tail(rx)
    /\ LET ev == Head(rx) IN
         IF ev.kind \in Streams
           THEN \E ok \in BOOLEAN :
                  IF ok
                    THEN /\ emitted' = [emitted EXCEPT ![EventName(ev.kind)] =
                                            Append(@, from_utf8_lossy(ev.data))]
                         /\ relay' = relay
                    ELSE /\ emitted' = emitted
                         /\ relay' = "panicked"
           ELSE UNCHANGED <<emitted, relay>>
    /\ UNCHANGED <<cvars, out, sent, closed>>

\* line 146: recv() returns None once every sender is gone
RelayEof ==
    /\ relay = "running"
    /\ rx = <<>>
    /\ closed = "terminated"
    /\ \A s \in Streams : sent[s] = Len(out[s])
    /\ relay' = "ended"
    /\ UNCHANGED <<cvars, out, sent, rx, emitted, closed>>

RelayNext ==
    \/ \E s \in Streams : \E l \in Lines : WorkerWrite(s, l)
    \/ \E s \in Streams : PluginSend(s)
    \/ StreamsClose
    \/ PluginTerminated
    \/ RelayRecv
    \/ RelayEof

RelaySpec == RelayInit /\ [][RelayNext]_vars

\* ---------------------------------------------------------------- claims
Done(t) == pc[t] = "done"

StopDone(t) == Done(t) /\ op[t] \in StopOps

\* C1: at most one spawned worker process is alive at any instant, for every
\* interleaving of start and stop handlers.
C1_AtMostOneWorkerAlive == Cardinality(Alive) <= 1

\* C2: a worker handle is taken by at most one stop invocation; it receives
\* the shutdown write and the kill from that invocation only, and while that
\* invocation owns it the slot does not hold it.
C2_SingleStopOwner ==
    /\ \A p \in Pids : writes[p] <= 1 /\ kills[p] <= 1
    /\ \A t \in Threads : \A u \in Threads \ {t} :
          inv[t].took # None => inv[u].took # inv[t].took
    /\ \A t \in Threads : inv[t].took # None => process # inv[t].took
    /\ \A t \in Threads : child[t] # None /\ op[t] \in StopOps => mutex = t

\* C2 witness: one stop has run the termination sequence on the worker it
\* took while another stop, in flight at the same time, found the slot empty.
C2_Witness ==
    \E t \in Threads : \E u \in Threads \ {t} :
        /\ StopDone(t) /\ inv[t].took # None /\ kills[inv[t].took] = 1
        /\ StopDone(u) /\ inv[u].took = None
        /\ inv[u].log \in {LogNoProcessCleanup, LogNoProcessShutdown}

\* C3: every live worker is referenced by the slot or by the one handler that
\* owns its handle.
C3_NoOrphan ==
    \A p \in Alive : process = p \/ \E t \in Threads : child[t] = p

\* C4: a start whose check finds a worker in the slot ends there: it spawns
\* nothing, leaves the slot alone, launches no relay and returns success.
C4_StartOnOccupiedSlotIsNoOp ==
    [][\A t \in Threads :
          (pc[t] = "check" /\ pc'[t] # "check" /\ process # None) =>
              /\ pc'[t] = "done"
              /\ inv'[t].ret = OkSpawned
              /\ process' = process
              /\ status' = status
              /\ relays' = relays
              /\ child' = child]_vars

\* C4 witness: a start has returned success without spawning while the one
\* worker of the slot is running.
C4_Witness ==
    \E t \in Threads :
        /\ Done(t) /\ op[t] = "start_sidecar" /\ inv[t].log = LogSkip
        /\ inv[t].ret = OkSpawned
        /\ process # None /\ Alive = {process}

\* C5 as stated: a stop that found the slot empty returns a non-error result,
\* on the shutdown command too.
C5_StopOnEmptySlotNeverErrors ==
    \A t \in Threads :
        StopDone(t) /\ inv[t].took = None => inv[t].ret \notin ErrResults

\* C5 amended: a stop that finds the slot empty touches no worker and leaves
\* the slot empty; cleanup_sidecar_process goes on to its sweep and returns
\* normally, shutdown_sidecar returns Err("No active sidecar process to
\* shutdown.").
C5_StopOnEmptySlot ==
    [][\A t \in Threads :
          /\ (pc[t] \in {"c_lock", "s_lock"} /\ pc'[t] # pc[t] /\ process = None) =>
                /\ process' = None
                /\ writes' = writes /\ kills' = kills /\ status' = status
                /\ inv'[t].took = None
                /\ op[t] = "shutdown_sidecar" =>
                      pc'[t] = "done" /\ inv'[t].ret = ErrNoProcess
                /\ op[t] = "cleanup_sidecar_process" =>
                      /\ pc'[t] = "c_sweep"
                      /\ inv'[t].log = LogNoProcessCleanup
                      /\ inv'[t].ret \notin ErrResults
          /\ (pc[t] = "c_sweep" /\ pc'[t] # pc[t]) =>
                pc'[t] = "done" /\ inv'[t].ret = Unit]_vars

\* C5 witness: both stop paths have returned after finding the slot empty.
C5_Witness ==
    \E t \in Threads : \E u \in Threads \ {t} :
        /\ StopDone(t) /\ op[t] = "shutdown_sidecar"
        /\ inv[t].took = None /\ inv[t].ret = ErrNoProcess
        /\ StopDone(u) /\ op[u] = "cleanup_sidecar_process"
        /\ inv[u].took = None /\ inv[u].ret = Unit
        /\ process = None

\* C6: after a failed write the same invocation never enters the grace
\* period and has issued the kill on the handle it took before it returns.
C6_WriteFailureStillKills ==
    \A t \in Threads :
        op[t] \in StopOps /\ inv[t].wrote = "fail" =>
            /\ pc[t] \notin {"c_sleep", "s_sleep", "s_kill"}
            /\ inv[t].slept \in {0, KillSettleMs}
            /\ pc[t] \in {"c_kill", "s_killw"} =>
                  child[t] = inv[t].took /\ inv[t].slept = 0
            /\ pc[t] \in {"c_sweep", "done"} =>
                  /\ inv[t].killres # "none"
                  /\ kills[inv[t].took] = 1
                  /\ status[inv[t].took] # "alive"

\* C6 witness: a stop returned after its write failed on a live worker, which
\* its kill terminated.
C6_Witness ==
    \E t \in Threads :
        /\ StopDone(t) /\ inv[t].wrote = "fail"
        /\ inv[t].atKill = "alive" /\ inv[t].killres = "ok"
        /\ status[inv[t].took] = "killed"

C8_EveryStopSweeps ==
    \A t \in Threads :
        StopDone(t) => inv[t].sweeps = 1 /\ inv[t].scanned = ports

\* C8 amended: every cleanup_sidecar_process invocation makes exactly one
\* sweep over the port list, as its last step, whatever it found in the slot;
\* shutdown_sidecar makes none.
C8_CleanupSweepsShutdownDoesNot ==
    \A t \in Threads :
        /\ op[t] = "cleanup_sidecar_process" =>
              IF Done(t)
                THEN inv[t].sweeps = 1 /\ inv[t].scanned = ports
                ELSE inv[t].sweeps = 0
        /\ op[t] = "shutdown_sidecar" => inv[t].sweeps = 0

\* C8 witness: a cleanup that found no process and a shutdown command that
\* terminated one have both returned, the first with its sweep, the second
\* without.
C8_Witness ==
    \E t \in Threads : \E u \in Threads \ {t} :
        /\ StopDone(t) /\ op[t] = "cleanup_sidecar_process"
        /\ inv[t].took = None /\ inv[t].sweeps = 1
        /\ StopDone(u) /\ op[u] = "shutdown_sidecar"
        /\ inv[u].took # None /\ inv[u].sweeps = 0

\* the slot holds a worker that exited by itself
DeadInSlot == process # None /\ status[process] = "exited"

\* C9: a worker that exits by itself while the slot holds it does not stay
\* in the slot for ever.
C9_DeadWorkerLeavesSlot == DeadInSlot ~> ~DeadInSlot

\* what a stop invocation reports: the value it returns and the line it logs
Report(t) == <<op[t], inv[t].ret, inv[t].log>>

GracefulCase(t) ==
    StopDone(t) /\ inv[t].wrote = "ok" /\ inv[t].atKill = "exited"

ForcedCase(t) ==
    StopDone(t) /\ inv[t].wrote = "ok" /\ inv[t].atKill = "alive"

\* C10 as stated: the report of a stop whose write succeeded tells a worker
\* that exited by itself during the grace period from one that was still
\* alive and was killed.
C10_OutcomeDistinguishes ==
    \A t \in Threads : \A u \in Threads :
        GracefulCase(t) /\ ForcedCase(u) /\ op[t] = op[u] => Report(t) # Report(u)

\* C10 amended: a stop whose write succeeded returns the same value in both
\* cases, Ok("Sidecar shutdown completed.") from shutdown_sidecar and nothing
\* from cleanup_sidecar_process, after the grace period; the line it logs
\* follows the result of kill(), which succeeds on a live worker.
C10_SameOutcomeInBothCases ==
    \A t \in Threads :
        StopDone(t) /\ inv[t].wrote = "ok" =>
            /\ inv[t].atKill \in {"alive", "exited", "killed"}
            /\ op[t] = "shutdown_sidecar" =>
                  inv[t].ret = OkCompleted /\ inv[t].slept = GracePeriodMs
            /\ op[t] = "cleanup_sidecar_process" => inv[t].ret = Unit
            /\ inv[t].log = IF inv[t].killres = "ok" THEN LogKilled ELSE LogKillFailed
            /\ inv[t].atKill = "alive" => inv[t].killres = "ok"

\* C10 witness: two shutdown commands have returned the same value, one for
\* a worker that had exited by itself, one for a worker it had to kill.
C10_Witness ==
    \E t \in Threads : \E u \in Threads :
        /\ GracefulCase(t) /\ ForcedCase(u)
        /\ op[t] = "shutdown_sidecar" /\ op[u] = "shutdown_sidecar"
        /\ inv[t].ret = OkCompleted /\ inv[u].ret = OkCompleted
        /\ Report(t) = Report(u)

\* the text lines of one stream, as the relay decodes them
Decoded(s) == [i \in 1..Len(out[s]) |-> from_utf8_lossy(out[s][i])]

IsPrefix(a, b) == Len(a) <= Len(b) /\ \A i \in 1..Len(a) : a[i] = b[i]

\* C11: each event channel carries the lines of its stream, in order and once
\* each, and the relay stops only when it has forwarded every line written.
C11_RelayDeliversEveryLine ==
    \A s \in Streams :
        /\ IsPrefix(emitted[EventName(s)], Decoded(s))
        /\ relay \in {"ended", "panicked"} => emitted[EventName(s)] = Decoded(s)

\* what does hold of the relay: nothing is duplicated, reordered or sent to
\* the other channel, and a relay that ends at stream closure forwarded all
RelayOrderKept ==
    \A s \in Streams :
        /\ IsPrefix(emitted[EventName(s)], Decoded(s))
        /\ relay = "ended" => emitted[EventName(s)] = Decoded(s)

\* C12: a start whose spawn fails ends there: spawn_and_monitor_sidecar
\* returns the error, start_sidecar hands it to its caller, the slot is left
\* as it was, no relay is launched and no second spawn is tried.
C12_SpawnFailureSurfaced ==
    [][\A t \in Threads :
          (pc[t] = "spawn" /\ pc'[t] # "spawn" /\ child'[t] = None) =>
              /\ pc'[t] = "done"
              /\ inv'[t].sret = ErrSpawn
              /\ op[t] = "start_sidecar" => inv'[t].ret = ErrSpawn
              /\ process' = process
              /\ relays' = relays
              /\ status' = status]_vars

\* C12 witness: start_sidecar has returned the spawn error; the slot is
\* empty, no worker exists and no relay runs.
C12_Witness ==
    \E t \in Threads :
        /\ Done(t) /\ op[t] = "start_sidecar"
        /\ inv[t].sret = ErrSpawn /\ inv[t].ret = ErrSpawn
        /\ process = None /\ relays = {} /\ Alive = {}

Past(t) == pc[t] \in {"c_sweep", "done"}

\* C13: each of the four close/exit triggers invokes cleanup_sidecar_process;
\* an invocation that finds a worker writes the command and kills it once, an
\* invocation that finds the slot empty completes without error, write or
\* kill; a stop leaves the slot empty at its take and only a start's install
\* fills it again.
C13_TriggersIdempotent ==
    /\ [](\A t \in Threads : op[t] = "cleanup_sidecar_process" =>
             /\ Done(t) => inv[t].ret = Unit
             /\ (Past(t) /\ inv[t].took = None) =>
                    inv[t].wrote = "none" /\ inv[t].killres = "none"
             /\ (Past(t) /\ inv[t].took # None) =>
                    /\ inv[t].wrote # "none" /\ inv[t].killres # "none"
                    /\ kills[inv[t].took] = 1)
    /\ [][/\ \A t \in Threads :
               (pc[t] = "c_lock" /\ pc'[t] # "c_lock") =>
                   /\ process' = None
                   /\ process = None => (writes' = writes /\ kills' = kills)
          /\ (process' # None /\ process' # process) =>
                 \E t \in Threads : pc[t] = "set" /\ pc'[t] = "done"]_vars

\* C13 witness: two triggers have been handled, the first took the worker and
\* killed it, the second found the slot empty and returned normally.
C13_Witness ==
    \E t, u \in Threads :
        /\ t # u /\ Done(t) /\ Done(u)
        /\ op[t] = "cleanup_sidecar_process" /\ op[u] = "cleanup_sidecar_process"
        /\ inv[t].took # None /\ kills[inv[t].took] = 1
        /\ inv[u].took = None /\ inv[u].ret = Unit /\ inv[u].wrote = "none"
        /\ process = None

Stopping(u) == op[u] \in StopOps /\ child[u] # None

AtLock(t) == pc[t] \in {"c_lock", "s_lock"}

\* C14 (as stated): a stop that arrives while another stop is terminating the
\* worker is never kept waiting by it.
C14_LoserNeverBlocked ==
    \A t \in Threads :
        AtLock(t) => ~(\E u \in Threads \ {t} : mutex = u /\ Stopping(u))

\* C14 (amended): a stop passes its lock step only when no other stop still
\* owns a taken handle, that is after the winner's write, grace wait and
\* kill; finding the slot empty it then reports "no process" (a log line in
\* cleanup_sidecar_process, an Err in shutdown_sidecar) without write or kill.
C14_LoserWaitsForWinner ==
    /\ [](\A t \in Threads :
             (op[t] \in StopOps /\ ~AtLock(t) /\ pc[t] # "idle"
                  /\ inv[t].took = None) =>
                 /\ inv[t].wrote = "none" /\ inv[t].killres = "none"
                 /\ op[t] = "cleanup_sidecar_process" =>
                        inv[t].log = LogNoProcessCleanup
                 /\ op[t] = "shutdown_sidecar" =>
                        inv[t].ret = ErrNoProcess /\ Done(t))
    /\ [][\A t \in Threads :
             (AtLock(t) /\ ~AtLock(t)') =>
                 \A u \in Threads \ {t} : ~Stopping(u)]_vars

\* C14 witness: one stop sits in its grace wait holding the mutex and the
\* taken handle while a second stop is waiting at its lock.
C14_Witness ==
    \E t, u \in Threads :
        /\ t # u /\ AtLock(t)
        /\ mutex = u /\ Stopping(u) /\ pc[u] \in {"c_sleep", "s_sleep"}

InStop(t) == op[t] \in StopOps /\ pc[t] \notin {"idle", "done"}

\* C15: with every thread scheduled fairly each stop invocation returns; one
\* that took a handle has issued the kill for it by then and the slot does
\* not hold that handle.
C15_StopTerminates ==
    /\ \A t \in Threads : InStop(t) ~> StopDone(t)
    /\ [](\A t \in Threads :
             (StopDone(t) /\ inv[t].took # None) =>
                 /\ kills[inv[t].took] = 1
                 /\ inv[t].killres # "none"
                 /\ process # inv[t].took)

\* C15 witness: shutdown_sidecar has returned after taking a handle; the kill
\* was issued and the slot is empty.
C15_Witness ==
    \E t \in Threads :
        /\ StopDone(t) /\ op[t] = "shutdown_sidecar"
        /\ inv[t].took # None /\ kills[inv[t].took] = 1
        /\ process = None /\ mutex = 0

\* C16: in a stop that took a handle and whose write succeeded the kill comes
\* after the whole grace period: none is issued before or during the wait,
\* and after the wait it is issued whether or not the worker has exited.
C16_WriteWaitKillOrder ==
    \A t \in Threads :
        (op[t] \in StopOps /\ inv[t].wrote = "ok") =>
            /\ inv[t].cmd = ShutdownCommand
            /\ pc[t] \in {"c_sleep", "s_sleep", "c_kill", "s_kill",
                          "c_sweep", "done"}
            /\ pc[t] \in {"c_sleep", "s_sleep"} =>
                   inv[t].slept = 0 /\ kills[inv[t].took] = 0
            /\ pc[t] \in {"c_kill", "s_kill"} =>
                   inv[t].slept = GracePeriodMs /\ kills[inv[t].took] = 0
            /\ pc[t] \in {"c_sweep", "done"} =>
                   /\ inv[t].slept >= GracePeriodMs
                   /\ inv[t].killres # "none"
                   /\ kills[inv[t].took] = 1

\* C16 witness: the worker exited by itself during the grace wait and the
\* kill was issued on it all the same.
C16_Witness ==
    \E t \in Threads :
        /\ StopDone(t) /\ inv[t].wrote = "ok"
        /\ inv[t].atKill = "exited"
        /\ inv[t].slept >= GracePeriodMs
        /\ kills[inv[t].took] = 1

Installs(t) == pc[t] = "set" /\ pc'[t] = "done"

Spawns(t) == pc[t] = "spawn" /\ pc'[t] = "set"

\* C17: a start installs its handle only into an empty slot; an install
\* never replaces a handle the slot already holds.
C17_InstallOnlyIfEmpty ==
    [][\A t \in Threads : Installs(t) => process = None]_vars

\* C18: while a stop owns a taken handle whose kill it has not issued yet, no
\* start spawns a worker or installs one into the slot.
C18_NoStartWhileKillPending ==
    [][\A t \in Threads :
          (Spawns(t) \/ Installs(t)) =>
              ~(\E u \in Threads : Stopping(u))]_vars

\* the part of C18 that the lock does give: no install and no emptiness check
\* of a start happens while a stop owns a taken handle
NoSlotAccessWhileKillPending ==
    [][\A t \in Threads :
          (Installs(t) \/ (pc[t] = "check" /\ pc'[t] # "check")) =>
              ~(\E u \in Threads : Stopping(u))]_vars

Killed(t) ==
    op[t] \in StopOps /\ inv[t].took # None /\ inv[t].killres # "none"

StopEffect(t) ==
    [cmd    |-> inv[t].cmd,
     waited |-> inv[t].slept >= GracePeriodMs,
     kills  |-> kills[inv[t].took],
     worker |-> status[inv[t].took],
     inSlot |-> process = inv[t].took]

\* C19: cleanup_sidecar_process and shutdown_sidecar do the same to the slot
\* and to the worker they took: the same command is written, the grace
\* period is waited exactly when the write succeeded, one kill is issued and
\* the handle is out of the slot; with equal write and kill results on a
\* worker in the same condition the two leave the same effect.
C19_StopPathsEquivalent ==
    /\ \A t \in Threads :
           Killed(t) =>
               /\ StopEffect(t).cmd = ShutdownCommand
               /\ StopEffect(t).waited <=> (inv[t].wrote = "ok")
               /\ StopEffect(t).kills = 1
               /\ ~StopEffect(t).inSlot
    /\ \A t, u \in Threads :
           (/\ Killed(t) /\ op[t] = "cleanup_sidecar_process"
            /\ Killed(u) /\ op[u] = "shutdown_sidecar"
            /\ inv[t].wrote = inv[u].wrote
            /\ inv[t].killres = inv[u].killres
            /\ inv[t].atKill = inv[u].atKill) =>
               StopEffect(t) = StopEffect(u)

\* C19 witness: a trigger and the command have each terminated a worker
\* after a failed write, neither waited, each issued one kill.
C19_Witness ==
    \E t, u \in Threads :
        /\ Killed(t) /\ op[t] = "cleanup_sidecar_process"
        /\ Killed(u) /\ op[u] = "shutdown_sidecar"
        /\ inv[t].wrote = "fail" /\ inv[u].wrote = "fail"
        /\ inv[t].atKill = inv[u].atKill
        /\ inv[t].killres = inv[u].killres
        /\ StopEffect(t) = StopEffect(u)
        /\ ~StopEffect(t).waited

====
